---- MODULE Spec2Model ----
(***************************************************************************)
(* Checkout-to-order reconciliation of the feeya backend: the cart routes  *)
(* (routes/cart.js), the checkout routes (routes/checkout.js) and the      *)
(* Stripe webhook handlers (routes/webhooks.js), as they act on the rows   *)
(* of the Prisma store and on the provider's payment intents.              *)
(*                                                                         *)
(* Every `await` on the store or on the provider is a suspension point, so *)
(* each handler is a sequence of steps run by a request slot; the steps of *)
(* different slots interleave freely.  Money is kept in integer cents.     *)
(***************************************************************************)
EXTENDS Integers, Sequences, FiniteSets, TLC

(* ------------------------------ bounds --------------------------------- *)

\* operations in one behaviour: requests handled and back-office edits
MaxOps == 3

\* largest on-hand quantity the operator gives a product
MaxStock == 2

(* ----------------------------- the world ------------------------------- *)

Null == "null"

\* concurrent request slots
Reqs == {"r1", "r2"}

Products == {"p1"}

\* product price in cents: two units reach the free-delivery threshold exactly
Price == [p \in Products |-> 2000]

\* prices an operator may give a product
Prices == {2000, 2500}

\* who sends cart requests: a guest session, and the customer c1
Guest == [sessionId |-> "s1", customerId |-> Null]
Member == [sessionId |-> "s3", customerId |-> "c1"]
Callers == {Guest, Member}

\* a second guest, in another browser session
Visitor == [sessionId |-> "s2", customerId |-> Null]

\* a request with no x-session-id and no authenticated user
Anonymous == [sessionId |-> Null, customerId |-> Null]

\* Joi: quantity is at most 10 per request
MaxQuantity == 10

\* authenticated customers (checkout routes sit behind authenticateToken)
Customers == {"c1", "c2"}

\* delivery zones as seeded (one postal code each), the second one deactivated
DeliveryZones ==
  {[name |-> "Brussels Central", postalCodes |-> {"1000"}, isActive |-> TRUE,
    deliveryFee |-> 399, freeDeliveryThreshold |-> 4000],
   [name |-> "Hasselt Area", postalCodes |-> {"3500"}, isActive |-> FALSE,
    deliveryFee |-> 499, freeDeliveryThreshold |-> 5000]}

\* postal codes a checkout request may carry
PostalCodes == {"1000", "3500", "9999"}

\* phones that ask for a one-time code
Phones == {"+32470123456"}

\* generateOTP: six digits
GeneratedCodes == {"111111", "222222"}

\* codes a verify-otp request may carry
SubmittedCodes == GeneratedCodes \cup {"12ab"}

\* an OTP expires 10 minutes after it was stored
OtpMinutes == 10

\* verify-otp gives up on an OTP after 3 failed attempts
MaxAttempts == 3

\* the clock stops one minute after an OTP stored at 0 has expired
MaxClock == OtpMinutes + 1

VARIABLES
  stock,          \* Product.stock
  availability,   \* Product.availability
  price,          \* Product.price
  baskets,        \* Basket rows, the id is the index
  basketItems,    \* BasketItem rows: set of [id, basketId, productId, quantity, price]
  intents,        \* the provider's payment intents, the id is the index; `quoted`
                  \* is the order summary answered with the intent
  emitted,        \* webhook events the provider has emitted: [type, pi]
  orders,         \* Order rows, the id is the index
  orderItems,     \* OrderItem rows: set of [id, orderId, productId, quantity, price]
  orderEvents,    \* OrderEvent rows in insertion order: [orderId, event]
  pc,             \* per slot: the step the handler is at
  loc,            \* per slot: the handler's local variables
  last,           \* the response most recently sent
  granted,        \* per product: units granted by successful cart requests
  nextId,         \* next row id for BasketItem / OrderItem rows
  nops,           \* handler invocations so far
  otpStore,       \* auth.js otpStore: phone -> [code, expiresAt, attempts]
  now,            \* the wall clock, in minutes
  otpLog          \* per phone, for the OTP now or last stored: wrong codes
                  \* answered and successful verifications

vars == <<stock, availability, price, baskets, basketItems, intents, emitted, orders,
          orderItems, orderEvents, pc, loc, last, granted, nextId, nops,
          otpStore, now, otpLog>>

auth == <<otpStore, now, otpLog>>

dbCart == <<baskets, basketItems>>
dbOrders == <<orders, orderItems, orderEvents>>
product == <<stock, availability, price>>
provider == <<intents, emitted>>

NoLoc == [op |-> "none"]
NoResp == [op |-> "none", status |-> 0]

\* findFirst found no BasketItem row
NoItem == [id |-> 0, basketId |-> 0, productId |-> Null, quantity |-> 0, price |-> 0]

\* otpStore.get finds nothing for the phone
NoCode == [code |-> Null, expiresAt |-> 0, attempts |-> 0]

\* the otpStore Map of a process that has just started
NoOtp ==
  /\ otpStore = [ph \in Phones |-> NoCode]
  /\ now = 0
  /\ otpLog = [ph \in Phones |-> [wrong |-> 0, verified |-> 0]]

Idle(r) == pc[r] = "idle"

\* slots are interchangeable: a new request takes r1 when it is free
CanStart(r) ==
  /\ Idle(r)
  /\ nops < MaxOps
  /\ r = "r2" => ~Idle("r1")

\* the slot moves to step s with locals l
Goto(r, s, l) ==
  /\ pc' = [pc EXCEPT ![r] = s]
  /\ loc' = [loc EXCEPT ![r] = l]

\* the slot sends response rsp and is free again
Respond(r, rsp) ==
  /\ pc' = [pc EXCEPT ![r] = "idle"]
  /\ loc' = [loc EXCEPT ![r] = NoLoc]
  /\ last' = rsp

\* the store after seeding: products on sale, no basket, no intent, no order
EmptyStore ==
  /\ availability = [p \in Products |-> TRUE]
  /\ price = Price
  /\ baskets = <<>>
  /\ basketItems = {}
  /\ intents = <<>>
  /\ emitted = {}
  /\ orders = <<>>
  /\ orderItems = {}
  /\ orderEvents = <<>>
  /\ pc = [r \in Reqs |-> "idle"]
  /\ loc = [r \in Reqs |-> NoLoc]
  /\ last = NoResp
  /\ granted = [p \in Products |-> 0]
  /\ nextId = 1
  /\ nops = 0
  /\ NoOtp

\* the store as one completed POST /api/cart/add of the member leaves it:
\* a basket with one line of q units of p
MemberHasLine(p, q) ==
  /\ availability = [x \in Products |-> TRUE]
  /\ price = Price
  /\ baskets = <<[sessionId |-> Member.sessionId, customerId |-> Member.customerId,
                  subtotal |-> Price[p] * q]>>
  /\ basketItems = {[id |-> 1, basketId |-> 1, productId |-> p, quantity |-> q,
                     price |-> Price[p]]}
  /\ intents = <<>>
  /\ emitted = {}
  /\ orders = <<>>
  /\ orderItems = {}
  /\ orderEvents = <<>>
  /\ pc = [r \in Reqs |-> "idle"]
  /\ loc = [r \in Reqs |-> NoLoc]
  /\ last = [op |-> "add", status |-> 200, subtotal |-> Price[p] * q]
  /\ granted = [x \in Products |-> IF x = p THEN q ELSE 0]
  /\ nextId = 2
  /\ nops = 0
  /\ NoOtp

\* the store when, besides, customer c2 has opened the cart page: GET
\* /api/cart of c2 has created an empty basket
TwoBaskets(p, q) ==
  /\ availability = [x \in Products |-> TRUE]
  /\ price = Price
  /\ baskets = <<[sessionId |-> Member.sessionId, customerId |-> Member.customerId,
                  subtotal |-> Price[p] * q],
                 [sessionId |-> "s4", customerId |-> "c2", subtotal |-> 0]>>
  /\ basketItems = {[id |-> 1, basketId |-> 1, productId |-> p, quantity |-> q,
                     price |-> Price[p]]}
  /\ intents = <<>>
  /\ emitted = {}
  /\ orders = <<>>
  /\ orderItems = {}
  /\ orderEvents = <<>>
  /\ pc = [r \in Reqs |-> "idle"]
  /\ loc = [r \in Reqs |-> NoLoc]
  /\ last = [op |-> "get", status |-> 200, subtotal |-> 0]
  /\ granted = [x \in Products |-> IF x = p THEN q ELSE 0]
  /\ nextId = 2
  /\ nops = 0
  /\ NoOtp

\* checkout starts from the seeded store or from a member's filled basket
Init ==
  /\ stock = [p \in Products |-> MaxStock]
  /\ \/ EmptyStore
     \/ \E p \in Products, q \in 1..MaxStock : MemberHasLine(p, q)
     \/ \E p \in Products : TwoBaskets(p, 1)

\* the cart starts from the seeded store, any on-hand quantity
InitCart ==
  /\ stock \in [Products -> 1..MaxStock]
  /\ EmptyStore

(* ------------------------------ helpers -------------------------------- *)

RECURSIVE SumOver(_, _)
\* sum of f[x] over the finite set S
SumOver(S, f) ==
  IF S = {} THEN 0
  ELSE LET x == CHOOSE y \in S : TRUE IN f[x] + SumOver(S \ {x}, f)

ItemsOf(bid) == {i \in basketItems : i.basketId = bid}

\* getOrCreateBasket's findFirst filter: OR [{sessionId}, {customerId}];
\* customerId defaults to null, and {customerId: null} matches IS NULL
BasketMatches(sessionId, customerId) ==
  {b \in 1..Len(baskets) :
     \/ baskets[b].sessionId = sessionId
     \/ baskets[b].customerId = customerId}

(* ------------------------- POST /api/cart/add -------------------------- *)

\* addToCartSchema: quantity integer, min 1, max 10
AddToCartSchema(q) == q \in 1..MaxQuantity

\* updateCartItemSchema: quantity integer, min 0, max 10
UpdateCartItemSchema(q) == q \in 0..MaxQuantity

\* as Identified, letting every request through
Identified_Always(c) == TRUE

\* the negation of `!sessionId && !customerId`
Identified(c) == c.sessionId # Null \/ c.customerId # Null

\* the request arrives and the product row is read
AddReadProduct(r, c, p, q) ==
  /\ CanStart(r)
  /\ nops' = nops + 1
  /\ IF ~AddToCartSchema(q)
       THEN Respond(r, [op |-> "add", status |-> 400, error |-> "quantity is not valid"])
     ELSE IF ~Identified(c)
       THEN Respond(r, [op |-> "add", status |-> 400,
                        error |-> "Session ID or authentication required"])
     ELSE IF ~availability[p]
       THEN Respond(r, [op |-> "add", status |-> 400, error |-> "Product is not available"])
     ELSE IF stock[p] < q
       THEN Respond(r, [op |-> "add", status |-> 400, error |-> "Insufficient stock",
                        availableStock |-> stock[p]])
     ELSE /\ Goto(r, "add_findBasket",
                  [op |-> "add", sessionId |-> c.sessionId, customerId |-> c.customerId,
                   productId |-> p, quantity |-> q,
                   product |-> [stock |-> stock[p], price |-> price[p]]])
          /\ UNCHANGED last
  /\ UNCHANGED <<auth, product, dbCart, provider, dbOrders, granted, nextId>>

\* getOrCreateBasket: findFirst; without orderBy any matching row may come back
AddFindBasket(r) ==
  /\ pc[r] = "add_findBasket"
  /\ LET m == BasketMatches(loc[r].sessionId, loc[r].customerId) IN
       IF m = {}
         THEN Goto(r, "add_createBasket", loc[r])
         ELSE \E b \in m : Goto(r, "add_findItem", loc[r] @@ [basketId |-> b])
  /\ UNCHANGED <<auth, product, dbCart, provider, dbOrders, last, granted, nextId, nops>>


\* getOrCreateBasket: no row matched, a basket is created
AddCreateBasket(r) ==
  /\ pc[r] = "add_createBasket"
  /\ baskets' = Append(baskets, [sessionId |-> loc[r].sessionId,
                                 customerId |-> loc[r].customerId, subtotal |-> 0])
  /\ Goto(r, "add_findItem", loc[r] @@ [basketId |-> Len(baskets) + 1])
  /\ UNCHANGED <<auth, product, basketItems, provider, dbOrders, last, granted, nextId, nops>>

\* existingItem = basketItem.findFirst({basketId, productId})
AddFindItem(r) ==
  /\ pc[r] = "add_findItem"
  /\ LET m == {i \in ItemsOf(loc[r].basketId) : i.productId = loc[r].productId} IN
       IF m = {}
         THEN Goto(r, "add_write", loc[r] @@ [existingItem |-> NoItem])
         ELSE \E i \in m : Goto(r, "add_write", loc[r] @@ [existingItem |-> i])
  /\ UNCHANGED <<auth, product, dbCart, provider, dbOrders, last, granted, nextId, nops>>

\* the line is updated to existing + quantity, or created; the stock compared
\* is the product row read when the request arrived
AddWriteItem(r) ==
  /\ pc[r] = "add_write"
  /\ LET l == loc[r]
         e == l.existingItem
     IN
       IF e # NoItem
         THEN LET newQuantity == e.quantity + l.quantity IN
           IF l.product.stock < newQuantity
             THEN /\ Respond(r, [op |-> "add", status |-> 400,
                                 error |-> "Insufficient stock for requested quantity",
                                 availableStock |-> l.product.stock,
                                 currentQuantity |-> e.quantity])
                  /\ UNCHANGED <<basketItems, nextId>>
           ELSE IF \E i \in basketItems : i.id = e.id
             THEN /\ basketItems' =
                       {IF i.id = e.id
                          THEN [i EXCEPT !.quantity = newQuantity, !.price = l.product.price]
                          ELSE i : i \in basketItems}
                  /\ Goto(r, "add_sumItems", l)
                  /\ UNCHANGED <<last, nextId>>
           \* the row is gone: update throws, the catch answers 500
           ELSE /\ Respond(r, [op |-> "add", status |-> 500,
                               error |-> "Failed to add item to cart"])
                /\ UNCHANGED <<basketItems, nextId>>
         ELSE /\ basketItems' = basketItems \cup
                    {[id |-> nextId, basketId |-> l.basketId, productId |-> l.productId,
                      quantity |-> l.quantity, price |-> l.product.price]}
              /\ nextId' = nextId + 1
              /\ Goto(r, "add_sumItems", l)
              /\ UNCHANGED last
  /\ UNCHANGED <<auth, product, baskets, provider, dbOrders, granted, nops>>

\* calculateBasketTotal over the rows read now: lines whose product is
\* unavailable or short of stock are left out of the sum
BasketTotal(bid) ==
  LET ok == {i \in ItemsOf(bid) :
               availability[i.productId] /\ stock[i.productId] >= i.quantity}
  IN SumOver(ok, [i \in ok |-> i.price * i.quantity])

\* calculateBasketTotal: basketItem.findMany and the sum
AddSumItems(r) ==
  /\ pc[r] = "add_sumItems"
  /\ Goto(r, "add_saveTotal", loc[r] @@ [subtotal |-> BasketTotal(loc[r].basketId)])
  /\ UNCHANGED <<auth, product, dbCart, provider, dbOrders, last, granted, nextId, nops>>

\* as AddSaveTotal, taking the added units off the product's stock
AddSaveTotal_TakesStock(r) ==
  /\ pc[r] = "add_saveTotal"
  /\ baskets' = [baskets EXCEPT ![loc[r].basketId].subtotal = loc[r].subtotal]
  /\ granted' = [granted EXCEPT ![loc[r].productId] = @ + loc[r].quantity]
  /\ stock' = [stock EXCEPT ![loc[r].productId] = @ - loc[r].quantity]
  /\ Respond(r, [op |-> "add", status |-> 200, subtotal |-> loc[r].subtotal])
  /\ UNCHANGED <<auth, availability, price, basketItems, provider, dbOrders, nextId, nops>>

\* calculateBasketTotal: basket.update({subtotal}), then the 200 response
AddSaveTotal(r) ==
  /\ pc[r] = "add_saveTotal"
  /\ baskets' = [baskets EXCEPT ![loc[r].basketId].subtotal = loc[r].subtotal]
  /\ granted' = [granted EXCEPT ![loc[r].productId] = @ + loc[r].quantity]
  /\ Respond(r, [op |-> "add", status |-> 200, subtotal |-> loc[r].subtotal])
  /\ UNCHANGED <<auth, product, basketItems, provider, dbOrders, nextId, nops>>

CartAdd(r, callers) ==
  \/ \E c \in callers, p \in Products, q \in 1..MaxStock : AddReadProduct(r, c, p, q)
  \/ AddFindBasket(r)
  \/ AddCreateBasket(r)
  \/ AddFindItem(r)
  \/ AddWriteItem(r)
  \/ AddSumItems(r)
  \/ AddSaveTotal(r)

(* ------------- GET /api/cart, PUT /update, DELETE /remove, /clear ------ *)

\* where a handler goes once getOrCreateBasket has returned
AfterBasket(l) ==
  CASE l.op = "get" -> "cart_sumItems"
    [] l.op = "update" -> IF l.quantity = 0 THEN "upd_deleteLine" ELSE "upd_readProduct"
    [] l.op = "remove" -> "rem_deleteLine"
    [] l.op = "clear" -> "clr_deleteLines"

\* a request of caller c arrives: operation op on product p with quantity q
CartStart(r, c, op, p, q) ==
  /\ CanStart(r)
  /\ nops' = nops + 1
  /\ IF op = "update" /\ ~UpdateCartItemSchema(q)
       THEN Respond(r, [op |-> op, status |-> 400, error |-> "quantity is not valid"])
     ELSE IF ~Identified(c)
       THEN Respond(r, [op |-> op, status |-> 400,
                        error |-> "Session ID or authentication required"])
     ELSE /\ Goto(r, "cart_findBasket",
                  [op |-> op, sessionId |-> c.sessionId, customerId |-> c.customerId,
                   productId |-> p, quantity |-> q])
          /\ UNCHANGED last
  /\ UNCHANGED <<auth, product, dbCart, provider, dbOrders, granted, nextId>>

\* getOrCreateBasket: findFirst
CartFindBasket(r) ==
  /\ pc[r] = "cart_findBasket"
  /\ LET m == BasketMatches(loc[r].sessionId, loc[r].customerId) IN
       IF m = {}
         THEN Goto(r, "cart_createBasket", loc[r])
         ELSE \E b \in m : Goto(r, AfterBasket(loc[r]), loc[r] @@ [basketId |-> b])
  /\ UNCHANGED <<auth, product, dbCart, provider, dbOrders, last, granted, nextId, nops>>

\* getOrCreateBasket: no row matched, a basket is created
CartCreateBasket(r) ==
  /\ pc[r] = "cart_createBasket"
  /\ baskets' = Append(baskets, [sessionId |-> loc[r].sessionId,
                                 customerId |-> loc[r].customerId, subtotal |-> 0])
  /\ Goto(r, AfterBasket(loc[r]), loc[r] @@ [basketId |-> Len(baskets) + 1])
  /\ UNCHANGED <<auth, product, basketItems, provider, dbOrders, last, granted, nextId, nops>>

\* basketItem.deleteMany({basketId, productId})
DeleteLine(r, step) ==
  /\ pc[r] = step
  /\ basketItems' = {i \in basketItems :
                       ~(i.basketId = loc[r].basketId /\ i.productId = loc[r].productId)}
  /\ Goto(r, "cart_sumItems", loc[r])
  /\ UNCHANGED <<auth, product, baskets, provider, dbOrders, last, granted, nextId, nops>>

\* PUT /update with quantity 0 removes the line
UpdateDeleteLine(r) == DeleteLine(r, "upd_deleteLine")

\* as UpdateReadProduct, without the comparison against the stock
UpdateReadProduct_NoStockCheck(r) ==
  /\ pc[r] = "upd_readProduct"
  /\ LET p == loc[r].productId IN
       IF ~availability[p]
         THEN Respond(r, [op |-> "update", status |-> 400, error |-> "Product not available"])
       ELSE /\ Goto(r, "upd_writeLine", loc[r] @@ [product |-> [price |-> price[p]]])
            /\ UNCHANGED last
  /\ UNCHANGED <<auth, product, dbCart, provider, dbOrders, granted, nextId, nops>>

\* PUT /update: product.findUnique, availability and stock checks
UpdateReadProduct(r) ==
  /\ pc[r] = "upd_readProduct"
  /\ LET p == loc[r].productId IN
       IF ~availability[p]
         THEN Respond(r, [op |-> "update", status |-> 400, error |-> "Product not available"])
       ELSE IF stock[p] < loc[r].quantity
         THEN Respond(r, [op |-> "update", status |-> 400, error |-> "Insufficient stock",
                          availableStock |-> stock[p]])
       ELSE /\ Goto(r, "upd_writeLine", loc[r] @@ [product |-> [price |-> price[p]]])
            /\ UNCHANGED last
  /\ UNCHANGED <<auth, product, dbCart, provider, dbOrders, granted, nextId, nops>>

\* PUT /update: basketItem.updateMany({basketId, productId}, {quantity, price})
UpdateWriteLine(r) ==
  /\ pc[r] = "upd_writeLine"
  /\ basketItems' =
       {IF i.basketId = loc[r].basketId /\ i.productId = loc[r].productId
          THEN [i EXCEPT !.quantity = loc[r].quantity, !.price = loc[r].product.price]
          ELSE i : i \in basketItems}
  /\ Goto(r, "cart_sumItems", loc[r])
  /\ UNCHANGED <<auth, product, baskets, provider, dbOrders, last, granted, nextId, nops>>

\* DELETE /remove/:productId
RemoveDeleteLine(r) == DeleteLine(r, "rem_deleteLine")

\* calculateBasketTotal: basketItem.findMany and the sum
CartSumItems(r) ==
  /\ pc[r] = "cart_sumItems"
  /\ Goto(r, "cart_saveTotal", loc[r] @@ [subtotal |-> BasketTotal(loc[r].basketId)])
  /\ UNCHANGED <<auth, product, dbCart, provider, dbOrders, last, granted, nextId, nops>>

\* calculateBasketTotal: basket.update({subtotal}), then the response
CartSaveTotal(r) ==
  /\ pc[r] = "cart_saveTotal"
  /\ baskets' = [baskets EXCEPT ![loc[r].basketId].subtotal = loc[r].subtotal]
  /\ Respond(r, [op |-> loc[r].op, status |-> 200, subtotal |-> loc[r].subtotal])
  /\ UNCHANGED <<auth, product, basketItems, provider, dbOrders, granted, nextId, nops>>

\* DELETE /clear: basketItem.deleteMany({basketId})
ClearDeleteLines(r) ==
  /\ pc[r] = "clr_deleteLines"
  /\ basketItems' = basketItems \ ItemsOf(loc[r].basketId)
  /\ Goto(r, "clr_resetSubtotal", loc[r])
  /\ UNCHANGED <<auth, product, baskets, provider, dbOrders, last, granted, nextId, nops>>

\* DELETE /clear: basket.update({subtotal: 0}), then the response
ClearResetSubtotal(r) ==
  /\ pc[r] = "clr_resetSubtotal"
  /\ baskets' = [baskets EXCEPT ![loc[r].basketId].subtotal = 0]
  /\ Respond(r, [op |-> "clear", status |-> 200, subtotal |-> 0])
  /\ UNCHANGED <<auth, product, basketItems, provider, dbOrders, granted, nextId, nops>>

CartGet(r, callers) ==
  \E c \in callers : CartStart(r, c, "get", Null, 0)

CartUpdate(r, callers) ==
  \/ \E c \in callers, p \in Products, q \in 0..MaxStock : CartStart(r, c, "update", p, q)
  \/ UpdateDeleteLine(r)
  \/ UpdateReadProduct(r)
  \/ UpdateWriteLine(r)

CartRemove(r, callers) ==
  \/ \E c \in callers, p \in Products : CartStart(r, c, "remove", p, 0)
  \/ RemoveDeleteLine(r)

CartClear(r, callers) ==
  \/ \E c \in callers : CartStart(r, c, "clear", Null, 0)
  \/ ClearDeleteLines(r)
  \/ ClearResetSubtotal(r)

\* the steps the four handlers share
CartShared(r) ==
  \/ CartFindBasket(r)
  \/ CartCreateBasket(r)
  \/ CartSumItems(r)
  \/ CartSaveTotal(r)

(* ------------------ POST /api/checkout/create-payment-intent ----------- *)

\* validateDeliveryZone: an active zone whose postalCodes has the code
ValidateDeliveryZone(postalCode) ==
  {z \in DeliveryZones : postalCode \in z.postalCodes /\ z.isActive}

\* the zone that serves a postal code in the seeded table
ZoneOf(postalCode) == CHOOSE z \in DeliveryZones : postalCode \in z.postalCodes

\* as UnavailableItems, with the stock comparison left out
UnavailableItems_IgnoresStock(bid) ==
  {[productId |-> i.productId, reason |-> "out_of_stock"] :
   i \in {j \in ItemsOf(bid) : ~availability[j.productId]}}

\* the lines of a basket whose product is unavailable or short of stock,
\* as the handler reports them
UnavailableItems(bid) ==
  {[productId |-> i.productId,
    reason |-> IF ~availability[i.productId] THEN "out_of_stock" ELSE "insufficient_stock"] :
   i \in {j \in ItemsOf(bid) :
            ~availability[j.productId] \/ stock[j.productId] < j.quantity}}

\* subtotal accumulated over the lines of the basket read by the handler
IntentSubtotal(bid) ==
  LET ok == {i \in ItemsOf(bid) :
               availability[i.productId] /\ stock[i.productId] >= i.quantity}
  IN SumOver(ok, [i \in ok |-> i.price * i.quantity])

\* as DeliveryFee, charging the fee at the threshold itself
DeliveryFee_AboveThresholdOnly(zone, subtotal) ==
  IF subtotal > zone.freeDeliveryThreshold THEN 0 ELSE zone.deliveryFee

\* deliveryFee = subtotal >= freeDeliveryThreshold ? 0 : deliveryFee
DeliveryFee(zone, subtotal) ==
  IF subtotal >= zone.freeDeliveryThreshold THEN 0 ELSE zone.deliveryFee

\* The whole handler in one step.  Basket, lines and products come from one
\* query; the zone table is read-only; the address and customer rows it
\* writes are read by no other handler; the intent is unknown to every other
\* request until the response is sent.  amount is Math.round(total * 100):
\* totals are kept in cents here, and the rounding absorbs the binary error
\* of the euro sum.
CreatePaymentIntent(r, customerId, postalCode) ==
  /\ CanStart(r)
  /\ nops' = nops + 1
  /\ pc' = pc /\ loc' = loc
  /\ LET found == {b \in 1..Len(baskets) : baskets[b].customerId = customerId} IN
       IF found = {} \/ \A b \in found : ItemsOf(b) = {}
         THEN /\ last' = [op |-> "create-payment-intent", status |-> 400,
                          error |-> "Basket is empty"]
              /\ UNCHANGED intents
       ELSE \E b \in found :
         IF ItemsOf(b) = {}
           THEN /\ last' = [op |-> "create-payment-intent", status |-> 400,
                            error |-> "Basket is empty"]
                /\ UNCHANGED intents
         ELSE IF UnavailableItems(b) # {}
           THEN /\ last' = [op |-> "create-payment-intent", status |-> 400,
                            error |-> "Some items are no longer available",
                            unavailableItems |-> UnavailableItems(b)]
                /\ UNCHANGED intents
         ELSE IF ValidateDeliveryZone(postalCode) = {}
           THEN /\ last' = [op |-> "create-payment-intent", status |-> 400,
                            error |-> "Delivery not available in this area"]
                /\ UNCHANGED intents
         ELSE \E zone \in ValidateDeliveryZone(postalCode) :
           LET subtotal == IntentSubtotal(b)
               deliveryFee == DeliveryFee(zone, subtotal)
               total == subtotal + deliveryFee
           IN /\ intents' = Append(intents,
                   [status |-> "processing", amount |-> total,
                    metadata |-> [customerId |-> customerId, basketId |-> b,
                                  addressId |-> postalCode],
                    quoted |-> [subtotal |-> subtotal, deliveryFee |-> deliveryFee,
                                total |-> total]])
              /\ last' = [op |-> "create-payment-intent", status |-> 200,
                          paymentIntent |-> Len(intents) + 1,
                          subtotal |-> subtotal, deliveryFee |-> deliveryFee,
                          total |-> total]
  /\ UNCHANGED <<auth, product, dbCart, emitted, dbOrders, granted, nextId>>

(* ------------------------- the payment provider ------------------------ *)

\* the provider completes the charge and emits payment_intent.succeeded
ProviderSucceeds(pi) ==
  /\ pi \in 1..Len(intents)
  /\ intents[pi].status \in {"processing", "requires_payment_method"}
  /\ intents' = [intents EXCEPT ![pi].status = "succeeded"]
  /\ emitted' = emitted \cup {[type |-> "payment_intent.succeeded", pi |-> pi]}
  /\ UNCHANGED <<auth, product, dbCart, dbOrders, pc, loc, last, granted, nextId, nops>>

\* the charge is declined: payment_intent.payment_failed
ProviderFails(pi) ==
  /\ pi \in 1..Len(intents)
  /\ intents[pi].status = "processing"
  /\ intents' = [intents EXCEPT ![pi].status = "requires_payment_method"]
  /\ emitted' = emitted \cup {[type |-> "payment_intent.payment_failed", pi |-> pi]}
  /\ UNCHANGED <<auth, product, dbCart, dbOrders, pc, loc, last, granted, nextId, nops>>

\* the cardholder disputes a completed charge: charge.dispute.created
ProviderDisputes(pi) ==
  /\ pi \in 1..Len(intents)
  /\ intents[pi].status = "succeeded"
  /\ [type |-> "charge.dispute.created", pi |-> pi] \notin emitted
  /\ emitted' = emitted \cup {[type |-> "charge.dispute.created", pi |-> pi]}
  /\ UNCHANGED <<auth, product, dbCart, intents, dbOrders, pc, loc, last, granted, nextId, nops>>

(* --------------------------- the back office --------------------------- *)

\* an operator changes a product's on-hand quantity
OperatorSetsStock(p, n) ==
  /\ nops < MaxOps
  /\ nops' = nops + 1
  /\ n # stock[p]
  /\ stock' = [stock EXCEPT ![p] = n]
  /\ granted' = [granted EXCEPT ![p] = 0]
  /\ UNCHANGED <<auth, availability, price, dbCart, provider, dbOrders, pc, loc, last, nextId>>

\* an operator puts a product on or off sale
OperatorSetsAvailability(p, a) ==
  /\ nops < MaxOps
  /\ nops' = nops + 1
  /\ a # availability[p]
  /\ availability' = [availability EXCEPT ![p] = a]
  /\ UNCHANGED <<auth, stock, price, dbCart, provider, dbOrders, pc, loc, last, granted, nextId>>

\* an operator changes a product's price
OperatorSetsPrice(p, v) ==
  /\ nops < MaxOps
  /\ nops' = nops + 1
  /\ v # price[p]
  /\ price' = [price EXCEPT ![p] = v]
  /\ UNCHANGED <<auth, stock, availability, dbCart, provider, dbOrders, pc, loc, last, granted,
                 nextId>>

(* ------------------- POST /api/checkout/confirm-payment ---------------- *)

\* the Order rows of table ords that carry payment intent pi
OrdersIn(ords, pi) == {o \in 1..Len(ords) : ords[o].paymentIntentId = pi}

OrdersOf(pi) == OrdersIn(orders, pi)

\* what the handler answers: the order it created (0: none) and, on a 500,
\* what its catch block caught
ConfirmResponse(status, l, error, created, caught) ==
  [op |-> "confirm-payment", status |-> status, pi |-> l.paymentIntentId,
   error |-> error, orderId |-> created, caught |-> caught]

\* as ConfirmRetrieve, with the status check left out
ConfirmRetrieve_AnyStatus(r, customerId, pi) ==
  /\ CanStart(r)
  /\ pi \in 1..Len(intents)
  /\ nops' = nops + 1
  /\ Goto(r, "cp_findBasket",
          [op |-> "confirm-payment", customerId |-> customerId,
           paymentIntentId |-> pi, paymentIntent |-> intents[pi]])
  /\ UNCHANGED <<auth, last, product, dbCart, provider, dbOrders, granted, nextId>>

\* as ConfirmRetrieve, rejecting only an intent whose charge was declined
ConfirmRetrieve_RejectsDeclinedOnly(r, customerId, pi) ==
  /\ CanStart(r)
  /\ pi \in 1..Len(intents)
  /\ nops' = nops + 1
  /\ LET l == [op |-> "confirm-payment", customerId |-> customerId,
               paymentIntentId |-> pi, paymentIntent |-> intents[pi]]
     IN IF intents[pi].status = "requires_payment_method"
          THEN Respond(r, ConfirmResponse(400, l, "Payment not successful", 0, Null))
          ELSE Goto(r, "cp_findBasket", l) /\ UNCHANGED last
  /\ UNCHANGED <<auth, product, dbCart, provider, dbOrders, granted, nextId>>

\* the request arrives; stripe.paymentIntents.retrieve and the status check
ConfirmRetrieve(r, customerId, pi) ==
  /\ CanStart(r)
  /\ pi \in 1..Len(intents)
  /\ nops' = nops + 1
  /\ LET l == [op |-> "confirm-payment", customerId |-> customerId,
               paymentIntentId |-> pi, paymentIntent |-> intents[pi]]
     IN IF intents[pi].status # "succeeded"
          THEN Respond(r, ConfirmResponse(400, l, "Payment not successful", 0, Null))
          ELSE Goto(r, "cp_findBasket", l) /\ UNCHANGED last
  /\ UNCHANGED <<auth, product, dbCart, provider, dbOrders, granted, nextId>>

\* the basket row and its lines as the handler holds them
BasketSnapshot(bsk, items, b) ==
  [id |-> b, subtotal |-> bsk[b].subtotal, items |-> {i \in items : i.basketId = b}]

\* basket.findFirst({customerId}) with its lines
ConfirmFindBasket(r) ==
  /\ pc[r] = "cp_findBasket"
  /\ LET found == {b \in 1..Len(baskets) : baskets[b].customerId = loc[r].customerId} IN
       IF found = {}
         THEN Respond(r, ConfirmResponse(400, loc[r], "Basket not found", 0, Null))
         ELSE \E b \in found :
                /\ Goto(r, "cp_createOrder",
                        loc[r] @@ [basket |-> BasketSnapshot(baskets, basketItems, b)])
                /\ UNCHANGED last
  /\ UNCHANGED <<auth, product, dbCart, provider, dbOrders, granted, nextId, nops>>

\* a schema without the unique attribute refuses nothing
PaymentIntentIdTaken_NoConstraint(ords, row) == FALSE

\* Order.paymentIntentId is unique in the schema: a row whose value is
\* already in the table is refused (Prisma P2002)
PaymentIntentIdTaken(ords, row) == OrdersIn(ords, row.paymentIntentId) # {}

\* the Order row that prisma.order.create writes
NewOrder(l) ==
  [customerId |-> l.customerId,
   addressId |-> l.paymentIntent.metadata.addressId,
   basketId |-> l.basket.id,
   status |-> "CONFIRMED",
   subtotal |-> l.basket.subtotal,
   deliveryFee |-> l.paymentIntent.amount - l.basket.subtotal,
   total |-> l.paymentIntent.amount,
   paymentIntentId |-> l.paymentIntentId,
   paymentStatus |-> "PAID"]

\* one OrderItem row per basket line the handler holds
OrderItemRows(orderId, items) ==
  {[orderId |-> orderId, lineId |-> i.id, productId |-> i.productId,
    quantity |-> i.quantity, price |-> i.price] : i \in items}

EventRow(orderId, event) == [orderId |-> orderId, event |-> event]

\* prisma.order.create; a refused row throws into the catch: 500
ConfirmCreateOrder(r) ==
  /\ pc[r] = "cp_createOrder"
  /\ IF PaymentIntentIdTaken(orders, NewOrder(loc[r]))
       THEN /\ Respond(r, ConfirmResponse(500, loc[r], "Failed to confirm payment",
                                          0, "P2002"))
            /\ UNCHANGED orders
       ELSE /\ orders' = Append(orders, NewOrder(loc[r]))
            /\ Goto(r, "cp_createItems", loc[r] @@ [orderId |-> Len(orders) + 1])
            /\ UNCHANGED last
  /\ UNCHANGED <<auth, product, dbCart, provider, orderItems, orderEvents, granted, nextId, nops>>

\* orderItem.create for every line of the basket read earlier
ConfirmCreateItems(r) ==
  /\ pc[r] = "cp_createItems"
  /\ orderItems' = orderItems \cup OrderItemRows(loc[r].orderId, loc[r].basket.items)
  /\ Goto(r, "cp_createEvent", loc[r])
  /\ UNCHANGED <<auth, product, dbCart, provider, orders, orderEvents, last, granted, nextId, nops>>

\* orderEvent.create({event: 'confirmed'})
ConfirmCreateEvent(r) ==
  /\ pc[r] = "cp_createEvent"
  /\ orderEvents' = Append(orderEvents, EventRow(loc[r].orderId, "confirmed"))
  /\ Goto(r, "cp_clearItems", loc[r])
  /\ UNCHANGED <<auth, product, dbCart, provider, orders, orderItems, last, granted, nextId, nops>>

\* basketItem.deleteMany({basketId})
ConfirmClearItems(r) ==
  /\ pc[r] = "cp_clearItems"
  /\ basketItems' = basketItems \ ItemsOf(loc[r].basket.id)
  /\ Goto(r, "cp_resetSubtotal", loc[r])
  /\ UNCHANGED <<auth, product, baskets, provider, dbOrders, last, granted, nextId, nops>>

\* basket.update({subtotal: 0}), then the 200 response with the order
ConfirmResetSubtotal(r) ==
  /\ pc[r] = "cp_resetSubtotal"
  /\ baskets' = [baskets EXCEPT ![loc[r].basket.id].subtotal = 0]
  /\ Respond(r, ConfirmResponse(200, loc[r], Null, loc[r].orderId, Null))
  /\ UNCHANGED <<auth, product, basketItems, provider, dbOrders, granted, nextId, nops>>

\* a store call after order.create rejects: the catch answers 500 and nothing
\* already written is undone
ConfirmThrows(r) ==
  /\ pc[r] \in {"cp_createItems", "cp_createEvent", "cp_clearItems", "cp_resetSubtotal"}
  /\ Respond(r, ConfirmResponse(500, loc[r], "Failed to confirm payment",
                                loc[r].orderId, "store"))
  /\ UNCHANGED <<auth, product, dbCart, provider, dbOrders, granted, nextId, nops>>

ConfirmPayment(r) ==
  \/ \E c \in Customers, pi \in 1..Len(intents) : ConfirmRetrieve(r, c, pi)
  \/ ConfirmFindBasket(r)
  \/ ConfirmCreateOrder(r)
  \/ ConfirmCreateItems(r)
  \/ ConfirmCreateEvent(r)
  \/ ConfirmClearItems(r)
  \/ ConfirmResetSubtotal(r)
  \/ ConfirmThrows(r)

(* ----------------------- POST /api/webhooks/stripe --------------------- *)

\* the route's answer once the handler has returned
Received(type, pi) == [op |-> "webhook", status |-> 200, type |-> type, pi |-> pi]

\* a delivery of an emitted event starts handler `type` at its
\* order.findFirst({paymentIntentId}); events may be redelivered and reordered
WebhookFind(r, type, step) ==
  /\ CanStart(r)
  /\ nops' = nops + 1
  /\ \E e \in emitted :
       /\ e.type = type
       /\ IF OrdersOf(e.pi) = {}
            \* 'Order not found for payment intent': the handler returns
            THEN Respond(r, Received(type, e.pi))
            ELSE \E o \in OrdersOf(e.pi) :
                   /\ Goto(r, step, [op |-> type, pi |-> e.pi, orderId |-> o])
                   /\ UNCHANGED last
  /\ UNCHANGED <<auth, product, dbCart, provider, dbOrders, granted, nextId>>

\* handlePaymentSucceeded: order.update({paymentStatus: 'PAID'})
MarkPaid(ords, o) == [ords EXCEPT ![o].paymentStatus = "PAID"]

\* handlePaymentFailed: order.update({paymentStatus: 'FAILED', status: 'CANCELLED'})
MarkFailed(ords, o) ==
  [ords EXCEPT ![o].paymentStatus = "FAILED", ![o].status = "CANCELLED"]

SucceededFind(r) == WebhookFind(r, "payment_intent.succeeded", "ws_update")

SucceededUpdate(r) ==
  /\ pc[r] = "ws_update"
  /\ orders' = MarkPaid(orders, loc[r].orderId)
  /\ Goto(r, "ws_event", loc[r])
  /\ UNCHANGED <<auth, product, dbCart, provider, orderItems, orderEvents, last, granted, nextId, nops>>

SucceededEvent(r) ==
  /\ pc[r] = "ws_event"
  /\ orderEvents' = Append(orderEvents, EventRow(loc[r].orderId, "payment_succeeded"))
  /\ Respond(r, Received(loc[r].op, loc[r].pi))
  /\ UNCHANGED <<auth, product, dbCart, provider, orders, orderItems, granted, nextId, nops>>

FailedFind(r) == WebhookFind(r, "payment_intent.payment_failed", "wf_update")

FailedUpdate(r) ==
  /\ pc[r] = "wf_update"
  /\ orders' = MarkFailed(orders, loc[r].orderId)
  /\ Goto(r, "wf_event", loc[r])
  /\ UNCHANGED <<auth, product, dbCart, provider, orderItems, orderEvents, last, granted, nextId, nops>>

FailedEvent(r) ==
  /\ pc[r] = "wf_event"
  /\ orderEvents' = Append(orderEvents, EventRow(loc[r].orderId, "payment_failed"))
  /\ Respond(r, Received(loc[r].op, loc[r].pi))
  /\ UNCHANGED <<auth, product, dbCart, provider, orders, orderItems, granted, nextId, nops>>

DisputeFind(r) == WebhookFind(r, "charge.dispute.created", "wd_event")

\* event types a sender without the signing secret puts in a request
ForgedTypes ==
  {"payment_intent.succeeded", "payment_intent.payment_failed", "charge.dispute.created"}

\* the switch on event.type: the first store-writing step of each handler
HandlerStep(type) ==
  CASE type = "payment_intent.succeeded" -> "ws_update"
    [] type = "payment_intent.payment_failed" -> "wf_update"
    [] type = "charge.dispute.created" -> "wd_event"

\* a verification that accepts every request
ConstructEventThrows_Never(d) == FALSE

\* stripe.webhooks.constructEvent throws when the stripe-signature header
\* does not verify against the webhook secret
ConstructEventThrows(d) == ~d.signed

\* a request whose signature does not verify: the first try block answers
\* 400 `Webhook Error`; past it the request would be handled as any event
WebhookUnverified(r, type, pi) ==
  /\ CanStart(r)
  /\ nops' = nops + 1
  /\ LET d == [type |-> type, pi |-> pi, signed |-> FALSE] IN
       IF ConstructEventThrows(d)
         THEN Respond(r, [op |-> "webhook-signature", status |-> 400, type |-> type,
                          pi |-> pi, error |-> "Webhook Error"])
       ELSE IF OrdersOf(pi) = {}
         THEN Respond(r, Received(type, pi))
       ELSE \E o \in OrdersOf(pi) :
              /\ Goto(r, HandlerStep(type), [op |-> type, pi |-> pi, orderId |-> o])
              /\ UNCHANGED last
  /\ UNCHANGED <<auth, product, dbCart, provider, dbOrders, granted, nextId>>

\* as DisputeEvent, cancelling the disputed order as well
DisputeEvent_CancelsOrder(r) ==
  /\ pc[r] = "wd_event"
  /\ orderEvents' = Append(orderEvents, EventRow(loc[r].orderId, "dispute_created"))
  /\ orders' = [orders EXCEPT ![loc[r].orderId].status = "CANCELLED"]
  /\ Respond(r, Received(loc[r].op, loc[r].pi))
  /\ UNCHANGED <<auth, product, dbCart, provider, orderItems, granted, nextId, nops>>

\* handleChargeDispute: orderEvent.create({event: 'dispute_created'})
DisputeEvent(r) ==
  /\ pc[r] = "wd_event"
  /\ orderEvents' = Append(orderEvents, EventRow(loc[r].orderId, "dispute_created"))
  /\ Respond(r, Received(loc[r].op, loc[r].pi))
  /\ UNCHANGED <<auth, product, dbCart, provider, orders, orderItems, granted, nextId, nops>>

\* a handler whose catch block passes the error on to the route, which
\* answers 500
HandlerCatch_Rethrows(type, pi) ==
  [op |-> "webhook", status |-> 500, type |-> type, pi |-> pi,
   error |-> "Webhook handler failed"]

\* the catch block of a handler logs the error and returns; the route goes
\* on to res.json({received: true})
HandlerCatch(type, pi) == Received(type, pi)

\* the steps of the handlers that write to the store
HandlerWrites == {"ws_update", "ws_event", "wf_update", "wf_event", "wd_event"}

\* a store write of a handler throws (connection lost, row gone): nothing is
\* written by this step and the handler's catch block takes over
WebhookThrows(r) ==
  /\ pc[r] \in HandlerWrites
  /\ Respond(r, HandlerCatch(loc[r].op, loc[r].pi))
  /\ UNCHANGED <<auth, product, dbCart, provider, dbOrders, granted, nextId, nops>>

Webhook(r) ==
  \/ SucceededFind(r)
  \/ SucceededUpdate(r)
  \/ SucceededEvent(r)
  \/ FailedFind(r)
  \/ FailedUpdate(r)
  \/ FailedEvent(r)
  \/ DisputeFind(r)
  \/ DisputeEvent(r)
  \/ \E type \in ForgedTypes, pi \in 1..Len(intents) : WebhookUnverified(r, type, pi)

(* ------------- POST /api/orders/:id/cancel and /update-status --------- *)

\* orderStatusSchema: the values of status the route accepts
OrderStatuses == {"CONFIRMED", "PREPARING", "OUT_FOR_DELIVERY", "DELIVERED", "CANCELLED"}

\* status values a request body may carry: the valid ones and another
RequestedStatuses == OrderStatuses \cup {"RETURNED"}

\* a status name as its words, which '_' separates
StatusWords ==
  [s \in OrderStatuses |->
     CASE s = "OUT_FOR_DELIVERY" -> <<"OUT", "FOR", "DELIVERY">>
       [] OTHER -> <<s>>]

\* String.prototype.toLowerCase on the words of the status names
ToLowerCase ==
  [w \in {"CONFIRMED", "PREPARING", "OUT", "FOR", "DELIVERY", "DELIVERED", "CANCELLED"} |->
     CASE w = "CONFIRMED" -> "confirmed"
       [] w = "PREPARING" -> "preparing"
       [] w = "OUT" -> "out"
       [] w = "FOR" -> "for"
       [] w = "DELIVERY" -> "delivery"
       [] w = "DELIVERED" -> "delivered"
       [] w = "CANCELLED" -> "cancelled"]

RECURSIVE Text(_, _)
\* the string made of words with seps[k] between word k and word k + 1
Text(words, seps) ==
  IF Len(words) = 1 THEN words[1]
  ELSE words[1] \o seps[1] \o Text(Tail(words), Tail(seps))

\* the separators of a name of n words: all '_'
Underscores(n) == [k \in 1..(n - 1) |-> "_"]

\* String.prototype.replace('_', ' ') on the separators: a string pattern
\* replaces the first occurrence only
ReplaceFirst(seps) == [k \in DOMAIN seps |-> IF k = 1 THEN " " ELSE seps[k]]

\* status.toLowerCase()
LowerCased(status) ==
  LET w == StatusWords[status]
  IN Text([k \in DOMAIN w |-> ToLowerCase[w[k]]], Underscores(Len(w)))

\* status.toLowerCase().replace('_', ' ')
StatusEventName(status) ==
  LET w == StatusWords[status]
  IN Text([k \in DOMAIN w |-> ToLowerCase[w[k]]], ReplaceFirst(Underscores(Len(w))))

OrderResponse(op, status, error) == [op |-> op, status |-> status, error |-> error]

\* POST /:id/cancel of customer c for order id o: order.findFirst({id,
\* customerId}) and the status checks
CancelFind(r, c, o) ==
  /\ CanStart(r)
  /\ nops' = nops + 1
  /\ IF o \notin 1..Len(orders) \/ orders[o].customerId # c
       THEN Respond(r, OrderResponse("cancel", 404, "Order not found"))
     ELSE IF orders[o].status = "DELIVERED"
       THEN Respond(r, OrderResponse("cancel", 400, "Cannot cancel delivered order"))
     ELSE IF orders[o].status = "CANCELLED"
       THEN Respond(r, OrderResponse("cancel", 400, "Order already cancelled"))
     ELSE /\ Goto(r, "oc_update", [op |-> "cancel", orderId |-> o])
          /\ UNCHANGED last
  /\ UNCHANGED <<auth, product, dbCart, provider, dbOrders, granted, nextId>>

\* POST /:id/cancel: order.update({status: 'CANCELLED'})
CancelUpdate(r) ==
  /\ pc[r] = "oc_update"
  /\ orders' = [orders EXCEPT ![loc[r].orderId].status = "CANCELLED"]
  /\ Goto(r, "oc_event", loc[r])
  /\ UNCHANGED <<auth, product, dbCart, provider, orderItems, orderEvents, last, granted, nextId, nops>>

\* POST /:id/cancel: orderEvent.create({event: 'cancelled'}), then 200
CancelEvent(r) ==
  /\ pc[r] = "oc_event"
  /\ orderEvents' = Append(orderEvents, EventRow(loc[r].orderId, "cancelled"))
  /\ Respond(r, OrderResponse("cancel", 200, Null))
  /\ UNCHANGED <<auth, product, dbCart, provider, orders, orderItems, granted, nextId, nops>>

OrderCancel(r) ==
  \/ \E c \in Customers, o \in 1..(Len(orders) + 1) : CancelFind(r, c, o)
  \/ CancelUpdate(r)
  \/ CancelEvent(r)

\* POST /:id/update-status: validation and order.findUnique({id})
StatusFind(r, o, status) ==
  /\ CanStart(r)
  /\ nops' = nops + 1
  /\ IF status \notin OrderStatuses
       THEN Respond(r, OrderResponse("update-status", 400, "status is not valid"))
     ELSE IF o \notin 1..Len(orders)
       THEN Respond(r, OrderResponse("update-status", 404, "Order not found"))
     ELSE /\ Goto(r, "us_update", [op |-> "update-status", orderId |-> o,
                                   status |-> status])
          /\ UNCHANGED last
  /\ UNCHANGED <<auth, product, dbCart, provider, dbOrders, granted, nextId>>

\* POST /:id/update-status: order.update({status})
StatusUpdate(r) ==
  /\ pc[r] = "us_update"
  /\ orders' = [orders EXCEPT ![loc[r].orderId].status = loc[r].status]
  /\ Goto(r, "us_event", loc[r])
  /\ UNCHANGED <<auth, product, dbCart, provider, orderItems, orderEvents, last, granted, nextId, nops>>

\* an update-status that keeps one event per Order, overwriting the Order's
\* latest event
StatusEvent_RewritesLatest(r) ==
  /\ pc[r] = "us_event"
  /\ LET ks == {k \in 1..Len(orderEvents) : orderEvents[k].orderId = loc[r].orderId}
         row == EventRow(loc[r].orderId, StatusEventName(loc[r].status))
     IN orderEvents' = IF ks = {} THEN Append(orderEvents, row)
                       ELSE [orderEvents EXCEPT ![CHOOSE k \in ks : \A j \in ks : j <= k] = row]
  /\ Respond(r, OrderResponse("update-status", 200, Null))
  /\ UNCHANGED <<auth, product, dbCart, provider, orders, orderItems, granted, nextId, nops>>

\* POST /:id/update-status: orderEvent.create, then 200
StatusEvent(r) ==
  /\ pc[r] = "us_event"
  /\ orderEvents' = Append(orderEvents,
                           EventRow(loc[r].orderId, StatusEventName(loc[r].status)))
  /\ Respond(r, OrderResponse("update-status", 200, Null))
  /\ UNCHANGED <<auth, product, dbCart, provider, orders, orderItems, granted, nextId, nops>>

OrderUpdateStatus(r) ==
  \/ \E o \in 1..(Len(orders) + 1), status \in RequestedStatuses : StatusFind(r, o, status)
  \/ StatusUpdate(r)
  \/ StatusEvent(r)

(* ------------------------- one-time codes (auth.js) -------------------- *)

\* Joi: code is six digits
VerifyOtpSchema(code) == code \in GeneratedCodes

AuthResponse(op, status, error) == [op |-> op, status |-> status, error |-> error]

\* POST /send-otp: a fresh code is stored with its expiry and no attempts,
\* replacing what was stored for the phone
SendStore(r, phone, otp) ==
  /\ Idle(r)
  /\ otpStore' = [otpStore EXCEPT
                    ![phone] = [code |-> otp, expiresAt |-> now + OtpMinutes, attempts |-> 0]]
  /\ otpLog' = [otpLog EXCEPT ![phone] = [wrong |-> 0, verified |-> 0]]
  /\ Goto(r, "so_sms", [op |-> "send-otp", phone |-> phone])
  /\ UNCHANGED <<product, dbCart, provider, dbOrders, last, granted, nextId, nops, now>>

\* POST /send-otp: the SMS is sent and 200 answered, or Twilio throws and
\* (outside development) 500 is answered; the stored code stays
SendSms(r) ==
  /\ pc[r] = "so_sms"
  /\ \/ Respond(r, AuthResponse("send-otp", 200, Null))
     \/ Respond(r, AuthResponse("send-otp", 500, "Failed to send OTP"))
  /\ UNCHANGED <<auth, product, dbCart, provider, dbOrders, granted, nextId, nops>>

SendOtp(r) ==
  \/ \E phone \in Phones, otp \in GeneratedCodes : SendStore(r, phone, otp)
  \/ SendSms(r)

\* an attempt limit that is compared after the code, so that the right code
\* is always accepted
AttemptsExhausted_AfterCode(o, code) == o.attempts >= MaxAttempts /\ o.code # code

\* storedOtp.attempts >= 3
AttemptsExhausted(o, code) == o.attempts >= MaxAttempts

\* POST /verify-otp up to the first await: validation, the lookups in
\* otpStore, the attempt count, the comparison and the delete run in one turn
\* of the event loop
VerifyCheck(r, phone, code) ==
  /\ Idle(r)
  /\ LET o == otpStore[phone] IN
       IF ~VerifyOtpSchema(code)
         THEN /\ Respond(r, AuthResponse("verify-otp", 400, "code is not valid"))
              /\ UNCHANGED <<otpStore, otpLog>>
       ELSE IF o = NoCode
         THEN /\ Respond(r, AuthResponse("verify-otp", 400, "OTP not found or expired"))
              /\ UNCHANGED <<otpStore, otpLog>>
       ELSE IF now > o.expiresAt
         THEN /\ otpStore' = [otpStore EXCEPT ![phone] = NoCode]
              /\ Respond(r, AuthResponse("verify-otp", 400, "OTP expired"))
              /\ UNCHANGED otpLog
       ELSE IF AttemptsExhausted(o, code)
         THEN /\ otpStore' = [otpStore EXCEPT ![phone] = NoCode]
              /\ Respond(r, AuthResponse("verify-otp", 400, "Too many failed attempts"))
              /\ UNCHANGED otpLog
       ELSE IF o.code # code
         THEN /\ otpStore' = [otpStore EXCEPT ![phone].attempts = @ + 1]
              /\ otpLog' = [otpLog EXCEPT ![phone].wrong = @ + 1]
              /\ Respond(r, AuthResponse("verify-otp", 400, "Invalid OTP code"))
       ELSE /\ otpStore' = [otpStore EXCEPT ![phone] = NoCode]
            /\ otpLog' = [otpLog EXCEPT ![phone].verified = @ + 1]
            /\ Goto(r, "vo_customer", [op |-> "verify-otp", phone |-> phone, code |-> code])
            /\ UNCHANGED last
  /\ UNCHANGED <<product, dbCart, provider, dbOrders, granted, nextId, nops, now>>

\* POST /verify-otp: customer.findUnique / create, createToken, 200 with the
\* token; a throw of the store answers 500 and no token
VerifyIssue(r) ==
  /\ pc[r] = "vo_customer"
  /\ \/ Respond(r, AuthResponse("verify-otp", 200, Null))
     \/ Respond(r, AuthResponse("verify-otp", 500, "Failed to verify OTP"))
  /\ UNCHANGED <<auth, product, dbCart, provider, dbOrders, granted, nextId, nops>>

VerifyOtp(r) ==
  \/ \E phone \in Phones, code \in SubmittedCodes : VerifyCheck(r, phone, code)
  \/ VerifyIssue(r)

\* time passes: a minute, or the life of an OTP
Tick(d) ==
  /\ now + d <= MaxClock
  /\ now' = now + d
  /\ UNCHANGED <<product, dbCart, provider, dbOrders, pc, loc, last, granted, nextId, nops,
                 otpStore, otpLog>>

(* ------------- the two completion paths, run without interleaving ------ *)

\* the rows a completion path reads and writes
Store ==
  [orders |-> orders, orderItems |-> orderItems, orderEvents |-> orderEvents,
   baskets |-> baskets, basketItems |-> basketItems]

\* POST /confirm-payment of customerId for intent pi, start to response, on
\* store st, when findFirst returns basket b and no store call rejects
ConfirmRun(st, customerId, pi, b) ==
  LET l == [customerId |-> customerId, paymentIntentId |-> pi,
            paymentIntent |-> intents[pi],
            basket |-> BasketSnapshot(st.baskets, st.basketItems, b)]
      o == Len(st.orders) + 1
  IN IF intents[pi].status # "succeeded" THEN st
     ELSE IF PaymentIntentIdTaken(st.orders, NewOrder(l)) THEN st
     ELSE [orders |-> Append(st.orders, NewOrder(l)),
           orderItems |-> st.orderItems \cup OrderItemRows(o, l.basket.items),
           orderEvents |-> Append(st.orderEvents, EventRow(o, "confirmed")),
           basketItems |-> st.basketItems \ l.basket.items,
           baskets |-> [st.baskets EXCEPT ![b].subtotal = 0]]

\* handlePaymentSucceeded for intent pi, start to return, on store st
SucceededRun(st, pi) ==
  IF OrdersIn(st.orders, pi) = {} THEN st
  ELSE LET o == CHOOSE x \in OrdersIn(st.orders, pi) : TRUE
       IN [st EXCEPT !.orders = MarkPaid(@, o),
                     !.orderEvents = Append(@, EventRow(o, "payment_succeeded"))]

\* handlePaymentCanceled: order.update({status: 'CANCELLED'})
MarkCanceled(ords, o) == [ords EXCEPT ![o].status = "CANCELLED"]

\* handlePaymentFailed for intent pi, start to return, on store st
FailedRun(st, pi) ==
  IF OrdersIn(st.orders, pi) = {} THEN st
  ELSE LET o == CHOOSE x \in OrdersIn(st.orders, pi) : TRUE
       IN [st EXCEPT !.orders = MarkFailed(@, o),
                     !.orderEvents = Append(@, EventRow(o, "payment_failed"))]

\* handlePaymentCanceled for intent pi, start to return, on store st
CanceledRun(st, pi) ==
  IF OrdersIn(st.orders, pi) = {} THEN st
  ELSE LET o == CHOOSE x \in OrdersIn(st.orders, pi) : TRUE
       IN [st EXCEPT !.orders = MarkCanceled(@, o),
                     !.orderEvents = Append(@, EventRow(o, "payment_canceled"))]

\* handleChargeDispute for intent pi, start to return, on store st
DisputeRun(st, pi) ==
  IF OrdersIn(st.orders, pi) = {} THEN st
  ELSE LET o == CHOOSE x \in OrdersIn(st.orders, pi) : TRUE
       IN [st EXCEPT !.orderEvents = Append(@, EventRow(o, "dispute_created"))]

\* POST /stripe: the switch on event.type
HandleEvent(st, e) ==
  CASE e.type = "payment_intent.succeeded" -> SucceededRun(st, e.pi)
    [] e.type = "payment_intent.payment_failed" -> FailedRun(st, e.pi)
    [] e.type = "payment_intent.canceled" -> CanceledRun(st, e.pi)
    [] e.type = "charge.dispute.created" -> DisputeRun(st, e.pi)
    [] OTHER -> st

Next ==
  \/ \E r \in Reqs : CartAdd(r, {Member})
  \/ \E r \in Reqs, c \in Customers, z \in PostalCodes : CreatePaymentIntent(r, c, z)
  \/ \E r \in Reqs : ConfirmPayment(r)
  \/ \E r \in Reqs : Webhook(r)
  \/ \E pi \in 1..Len(intents) : ProviderSucceeds(pi) \/ ProviderFails(pi)
  \/ \E pi \in 1..Len(intents) : ProviderDisputes(pi)
  \/ \E p \in Products, n \in 0..MaxStock : OperatorSetsStock(p, n)
  \/ \E p \in Products, a \in BOOLEAN : OperatorSetsAvailability(p, a)

Spec == Init /\ [][Next]_vars

\* the cart routes alone, guests and members, on products nobody edits
NextCart ==
  \/ \E r \in Reqs : CartAdd(r, Callers)

SpecCart == InitCart /\ [][NextCart]_vars

\* the basket of a member: every cart route, on products an operator may
\* take off sale and put back
InitBasket ==
  /\ stock \in [Products -> 1..MaxStock]
  /\ \/ EmptyStore
     \/ \E p \in Products, q \in 1..MaxStock : q <= stock[p] /\ MemberHasLine(p, q)

NextBasket ==
  \/ \E r \in Reqs : CartAdd(r, {Member, Anonymous})
  \/ \E r \in Reqs : CartGet(r, {Member, Anonymous})
  \/ \E r \in Reqs : CartUpdate(r, {Member, Anonymous})
  \/ \E r \in Reqs : CartRemove(r, {Member, Anonymous})
  \/ \E r \in Reqs : CartClear(r, {Member, Anonymous})
  \/ \E r \in Reqs : CartShared(r)
  \/ \E p \in Products, a \in BOOLEAN : OperatorSetsAvailability(p, a)
  \/ \E p \in Products, v \in Prices : OperatorSetsPrice(p, v)

SpecBasket == InitBasket /\ [][NextBasket]_vars

\* stock of the first seeded product
SeedStock == 50

\* quantities a request body may carry: around both ends of the schema range
Quantities == {0, 1, MaxQuantity, MaxQuantity + 1}

\* line quantities: adds and updates of a member on a freshly seeded product
InitQuantity ==
  /\ stock = [p \in Products |-> SeedStock]
  /\ EmptyStore

NextQuantity ==
  \/ \E r \in Reqs, p \in Products, q \in Quantities : AddReadProduct(r, Member, p, q)
  \/ \E r \in Reqs : \/ AddFindBasket(r)
                      \/ AddCreateBasket(r)
                      \/ AddFindItem(r)
                      \/ AddWriteItem(r)
                      \/ AddSumItems(r)
                      \/ AddSaveTotal(r)
  \/ \E r \in Reqs, p \in Products, q \in Quantities : CartStart(r, Member, "update", p, q)
  \/ \E r \in Reqs : \/ UpdateDeleteLine(r)
                      \/ UpdateReadProduct(r)
                      \/ UpdateWriteLine(r)
  \/ \E r \in Reqs : CartShared(r)

SpecQuantity == InitQuantity /\ [][NextQuantity]_vars

\* the store once the member's order is placed: the first charge of intent 1
\* was declined, the retry succeeded, confirm-payment has run to its end
OrderPlaced(p) ==
  LET intent == [status |-> "succeeded",
                 amount |-> Price[p] + DeliveryFee(ZoneOf("1000"), Price[p]),
                 metadata |-> [customerId |-> "c1", basketId |-> 1, addressId |-> "1000"],
                 quoted |-> [subtotal |-> Price[p],
                             deliveryFee |-> DeliveryFee(ZoneOf("1000"), Price[p]),
                             total |-> Price[p] + DeliveryFee(ZoneOf("1000"), Price[p])]]
      line == [id |-> 1, basketId |-> 1, productId |-> p, quantity |-> 1, price |-> Price[p]]
      l == [customerId |-> "c1", paymentIntentId |-> 1, paymentIntent |-> intent,
            basket |-> [id |-> 1, subtotal |-> Price[p], items |-> {line}]]
  IN /\ stock = [x \in Products |-> MaxStock]
     /\ availability = [x \in Products |-> TRUE]
     /\ price = Price
     /\ baskets = <<[sessionId |-> Member.sessionId, customerId |-> Member.customerId,
                     subtotal |-> 0]>>
     /\ basketItems = {}
     /\ intents = <<intent>>
     /\ emitted = {[type |-> "payment_intent.payment_failed", pi |-> 1],
                   [type |-> "payment_intent.succeeded", pi |-> 1]}
     /\ orders = <<NewOrder(l)>>
     /\ orderItems = OrderItemRows(1, {line})
     /\ orderEvents = <<EventRow(1, "confirmed")>>
     /\ pc = [r \in Reqs |-> "idle"]
     /\ loc = [r \in Reqs |-> NoLoc]
     /\ last = ConfirmResponse(200, l, Null, 1, Null)
     /\ granted = [x \in Products |-> IF x = p THEN 1 ELSE 0]
     /\ nextId = 2
     /\ nops = 0
     /\ NoOtp

\* the life of a placed order: status updates, customer cancel, webhooks
InitOrders == \E p \in Products : OrderPlaced(p)

NextOrders ==
  \/ \E r \in Reqs : OrderCancel(r)
  \/ \E r \in Reqs : OrderUpdateStatus(r)
  \/ \E r \in Reqs : Webhook(r)
  \/ \E pi \in 1..Len(intents) : ProviderDisputes(pi)

SpecOrders == InitOrders /\ [][NextOrders]_vars

\* every operation that reads or writes Orders and OrderEvents, with the
\* cart's clear beside them, from a filled basket or a placed order
InitLedger ==
  \/ /\ stock = [p \in Products |-> MaxStock]
     /\ \E p \in Products : MemberHasLine(p, 1)
  \/ InitOrders

NextLedger ==
  \/ \E r \in Reqs, c \in Customers, z \in PostalCodes : CreatePaymentIntent(r, c, z)
  \/ \E r \in Reqs : ConfirmPayment(r)
  \/ \E r \in Reqs : Webhook(r)
  \/ \E pi \in 1..Len(intents) : ProviderSucceeds(pi) \/ ProviderFails(pi)
  \/ \E pi \in 1..Len(intents) : ProviderDisputes(pi)
  \/ \E r \in Reqs : OrderCancel(r)
  \/ \E r \in Reqs : OrderUpdateStatus(r)
  \/ \E r \in Reqs : CartClear(r, {Member})
  \/ \E r \in Reqs : CartFindBasket(r)

SpecLedger == InitLedger /\ [][NextLedger]_vars

\* two guest sessions using the cart of the seeded store
Guests == {Guest, Visitor}

NextSession ==
  \/ \E r \in Reqs : CartAdd(r, Guests)
  \/ \E r \in Reqs : CartGet(r, Guests)
  \/ \E r \in Reqs : CartClear(r, Guests)
  \/ \E r \in Reqs : CartShared(r)

SpecSession == InitCart /\ [][NextSession]_vars

\* webhook deliveries against a store whose writes may fail, for intents
\* with and without an Order
NextFaults ==
  \/ \E r \in Reqs, c \in Customers, z \in PostalCodes : CreatePaymentIntent(r, c, z)
  \/ \E pi \in 1..Len(intents) : ProviderSucceeds(pi) \/ ProviderFails(pi)
  \/ \E pi \in 1..Len(intents) : ProviderDisputes(pi)
  \/ \E r \in Reqs : Webhook(r)
  \/ \E r \in Reqs : WebhookThrows(r)

SpecFaults == InitLedger /\ [][NextFaults]_vars

\* signing in with one-time codes
InitOtp ==
  /\ stock = [p \in Products |-> MaxStock]
  /\ EmptyStore

NextOtp ==
  \/ \E r \in Reqs : SendOtp(r)
  \/ \E r \in Reqs : VerifyOtp(r)
  \/ \E d \in {1, OtpMinutes} : Tick(d)

SpecOtp == InitOtp /\ [][NextOtp]_vars

(* ============================== properties ============================= *)

Quiescent == \A r \in Reqs : Idle(r)

\* a basket line is sellable: product on sale and stock covers the quantity
Sellable(i) == availability[i.productId] /\ stock[i.productId] >= i.quantity

C2_ExistingOrderReturned ==
  [][\A r \in Reqs :
       (/\ pc[r] # "idle"
        /\ loc[r].op = "confirm-payment"
        /\ pc'[r] = "idle"
        /\ \E o \in OrdersOf(loc[r].paymentIntentId) :
             ~ ("orderId" \in DOMAIN loc[r] /\ loc[r].orderId = o))
       => /\ last'.status = 200
          /\ last'.orderId \in OrdersOf(loc[r].paymentIntentId)]_vars

\* C3: once a payment_intent.succeeded delivery has been handled, the intent
\* has an Order, whether or not the client ever called confirm-payment.
C3_SucceededWebhookMaterializes ==
  (last.op = "webhook" /\ last.type = "payment_intent.succeeded")
  => OrdersOf(last.pi) # {}

\* C4: for a succeeded intent without an Order, running confirm-payment and
\* then the succeeded webhook leaves the same orders, order items, order
\* events and basket rows as running the webhook and then confirm-payment.
C4_SameEndStateEitherOrder ==
  \A pi \in 1..Len(intents), c \in Customers, b \in 1..Len(baskets) :
    (/\ Quiescent
     /\ intents[pi].status = "succeeded"
     /\ OrdersOf(pi) = {}
     /\ baskets[b].customerId = c)
    => SucceededRun(ConfirmRun(Store, c, pi, b), pi)
         = ConfirmRun(SucceededRun(Store, pi), c, pi, b)

\* C5: the quantities of the cart add requests that succeeded for a product
\* never sum to more than its on-hand quantity N (under SpecCart nothing
\* writes the stock, so stock[p] is N throughout).
C5_NoOversell == \A p \in Products : granted[p] <= stock[p]

\* C6: the step that creates an Order is never taken while a line of the
\* basket that produced the intent is off sale or short of stock.
C6_NoOrderFromUnsellableLines ==
  [][\A r \in Reqs :
       (pc[r] = "cp_createOrder" /\ pc'[r] = "cp_createItems")
       => \A i \in ItemsOf(loc[r].paymentIntent.metadata.basketId) : Sellable(i)]_vars

\* C7: every Order that exists has its OrderItems and its `confirmed`
\* OrderEvent, and none of the lines it was made from is still in a basket.
C7_AllOrNothing ==
  \A o \in 1..Len(orders) :
    /\ \E k \in 1..Len(orderEvents) : orderEvents[k] = EventRow(o, "confirmed")
    /\ {i \in orderItems : i.orderId = o} # {}
    /\ \A i \in orderItems :
         i.orderId = o => ~ \E line \in basketItems : line.id = i.lineId

\* C8: a confirm-payment call whose intent is not succeeded answers 400
\* 'Payment not successful' at once and changes no order, order item, order
\* event, basket or basket line.
C8_NotSucceededChangesNothing ==
  [][\A r \in Reqs, c \in Customers, pi \in 1..Len(intents) :
       (ConfirmRetrieve(r, c, pi) /\ intents[pi].status # "succeeded")
       => /\ pc'[r] = "idle"
          /\ last'.op = "confirm-payment"
          /\ last'.status = 400
          /\ last'.error = "Payment not successful"
          /\ UNCHANGED <<orders, orderItems, orderEvents, baskets, basketItems>>]_vars

\* C8 witness: such a call was answered while the basket holds its lines and
\* its subtotal and no Order exists.
C8_Witness ==
  /\ last.op = "confirm-payment"
  /\ last.status = 400
  /\ last.error = "Payment not successful"
  /\ orders = <<>>
  /\ \E i \in basketItems : baskets[i.basketId].subtotal = i.price * i.quantity

\* C9: every Order references an intent that has succeeded (succeeded is
\* final at the provider), so an intent that never succeeds has no Order.
C9_OrdersOnlyForSucceeded ==
  \A o \in 1..Len(orders) : intents[orders[o].paymentIntentId].status = "succeeded"

\* C9 witness: an Order exists for an intent whose first charge was declined
\* (payment_intent.payment_failed was emitted for it) and which succeeded
\* afterwards.
C9_Witness ==
  \E o \in 1..Len(orders) :
    [type |-> "payment_intent.payment_failed", pi |-> orders[o].paymentIntentId]
      \in emitted

\* C10: create-payment-intent creates an intent only from a basket of the
\* customer that has lines, all of them sellable in the product state of that
\* moment, and for a postal code in an active zone; otherwise it answers 400,
\* naming exactly the unsellable lines or the zone failure.
C10_IntentPreconditions ==
  [][\A r \in Reqs, c \in Customers, z \in PostalCodes :
       CreatePaymentIntent(r, c, z)
       => LET mine == {b \in 1..Len(baskets) : baskets[b].customerId = c}
              served == \E d \in DeliveryZones : d.isActive /\ z \in d.postalCodes
          IN IF Len(intents') > Len(intents)
               THEN LET b == intents'[Len(intents')].metadata.basketId
                    IN /\ b \in mine
                       /\ ItemsOf(b) # {}
                       /\ \A i \in ItemsOf(b) : Sellable(i)
                       /\ served
               ELSE /\ intents' = intents
                    /\ last'.status = 400
                    /\ \/ /\ last'.error = "Basket is empty"
                          /\ \E b \in mine \cup {0} : b = 0 \/ ItemsOf(b) = {}
                       \/ /\ last'.error = "Some items are no longer available"
                          /\ \E b \in mine :
                               /\ {u.productId : u \in last'.unavailableItems}
                                    = {i.productId : i \in {j \in ItemsOf(b) : ~Sellable(j)}}
                               /\ last'.unavailableItems # {}
                       \/ /\ last'.error = "Delivery not available in this area"
                          /\ ~served]_vars

\* C10 witness: a request was refused naming an unsellable line, and no
\* intent exists.
C10_Witness ==
  /\ last.op = "create-payment-intent"
  /\ last.status = 400
  /\ last.error = "Some items are no longer available"
  /\ last.unavailableItems # {}
  /\ intents = <<>>

\* sum of quantity times snapshotted unit price over the lines of a basket
LinesValue(bid) ==
  SumOver(ItemsOf(bid), [i \in ItemsOf(bid) |-> i.quantity * i.price])

\* C11: every intent is created with amount = subtotal + fee in cents, where
\* the fee is 0 when the basket's subtotal has reached the zone's
\* free-delivery threshold (the threshold itself included) and the zone fee
\* below it; a subtotal of 38.00 in a zone with threshold 40.00 and fee 3.99
\* gives 41.99, and 42.00 gives 42.00.
C11_FeeAndAmount ==
  [][\A r \in Reqs, c \in Customers, z \in PostalCodes :
       (CreatePaymentIntent(r, c, z) /\ Len(intents') > Len(intents))
       => LET new == intents'[Len(intents')]
              sub == LinesValue(new.metadata.basketId)
              zone == ZoneOf(z)
              fee == new.amount - sub
          IN /\ sub >= zone.freeDeliveryThreshold => fee = 0
             /\ sub < zone.freeDeliveryThreshold => fee = zone.deliveryFee
             /\ last'.subtotal = sub
             /\ last'.deliveryFee = fee
             /\ last'.total = new.amount
             /\ LET bc == ZoneOf("1000")
                IN /\ 3800 + DeliveryFee(bc, 3800) = 4199
                   /\ 4200 + DeliveryFee(bc, 4200) = 4200]_vars

\* C11 witness: one intent was created below the threshold with the zone fee
\* added, another at the threshold exactly with no fee.
C11_Witness ==
  \E a, b \in 1..Len(intents) :
    /\ intents[a].quoted.subtotal < ZoneOf(intents[a].metadata.addressId).freeDeliveryThreshold
    /\ intents[a].amount = intents[a].quoted.subtotal + 399
    /\ intents[b].quoted.subtotal = ZoneOf(intents[b].metadata.addressId).freeDeliveryThreshold
    /\ intents[b].amount = intents[b].quoted.subtotal

\* C12: every Order carries the total charged by its intent and the delivery
\* fee computed when the intent was created, and its subtotal plus its
\* delivery fee is its total, whatever the cart did in between.
C12_OrderCarriesQuotedPricing ==
  \A o \in 1..Len(orders) :
    LET q == intents[orders[o].paymentIntentId].quoted IN
      /\ orders[o].total = q.total
      /\ orders[o].deliveryFee = q.deliveryFee
      /\ orders[o].subtotal + orders[o].deliveryFee = orders[o].total

\* C13: no product's stock is ever negative, and no step of a request
\* handler writes a product's stock: it changes only when an operator sets it.
C13_StockWrittenByNoHandler ==
  /\ [](\A p \in Products : stock[p] >= 0)
  /\ [][stock' # stock
         => \E p \in Products, n \in 0..MaxStock : OperatorSetsStock(p, n)]_vars

\* C13 witness: an update has completed, a basket line holds every unit of
\* its product, and the product's stock still counts them all.
C13_Witness ==
  /\ last.op = "update"
  /\ last.status = 200
  /\ \E i \in basketItems : i.quantity = stock[i.productId] /\ i.quantity = MaxStock

\* the steps of a cart request before its product check: getOrCreateBasket
BeforeProductCheck(r) ==
  /\ loc[r].op = "update"
  /\ pc[r] \in {"cart_findBasket", "cart_createBasket"}
  /\ pc'[r] # pc[r]

\* no line changes and no existing basket row changes
BasketLeftUnchanged ==
  /\ basketItems' = basketItems
  /\ \A b \in 1..Len(baskets) : baskets'[b] = baskets[b]

\* the response is the insufficient-stock rejection carrying n available units
RejectedShort(rsp, errors, n) ==
  /\ rsp.status = 400
  /\ rsp.error \in errors
  /\ rsp.availableStock = n

C15_SubtotalIsSumOfLines ==
  [][\A r \in Reqs :
       (/\ pc[r] \in {"add_saveTotal", "cart_saveTotal", "clr_resetSubtotal"}
        /\ pc'[r] = "idle")
       => baskets'[loc[r].basketId].subtotal = LinesValue(loc[r].basketId)]_vars

\* units of product p on the OrderItem rows of order o
UnitsOf(o, p) ==
  LET rows == {i \in orderItems : i.orderId = o /\ i.productId = p}
  IN SumOver(rows, [i \in rows |-> i.quantity])

\* the rows and the stock a webhook handler may touch
Ledger == Store @@ [stock |-> stock]

Emitted(type, pi) == [type |-> type, pi |-> pi] \in emitted

\* C16: handling payment_intent.payment_failed for an intent that has an
\* Order leaves the Order FAILED and CANCELLED, appends a payment_failed
\* OrderEvent, and puts the units of the Order's lines back on the stock.
C16_FailedCancelsAndReleases ==
  \A pi \in 1..Len(intents) :
    (/\ Quiescent
     /\ Emitted("payment_intent.payment_failed", pi)
     /\ OrdersOf(pi) # {})
    => LET o == CHOOSE x \in OrdersOf(pi) : TRUE
           after == FailedRun(Ledger, pi)
       IN /\ after.orders[o].paymentStatus = "FAILED"
          /\ after.orders[o].status = "CANCELLED"
          /\ after.orderEvents = Append(orderEvents, EventRow(o, "payment_failed"))
          /\ \A p \in Products : after.stock[p] = stock[p] + UnitsOf(o, p)

\* C17: the payment_failed handler never changes an Order that is CONFIRMED
\* with paymentStatus PAID.
C17_FailedLeavesPaidOrder ==
  [][\A r \in Reqs :
       (/\ FailedUpdate(r)
        /\ orders[loc[r].orderId].status = "CONFIRMED"
        /\ orders[loc[r].orderId].paymentStatus = "PAID")
       => orders' = orders]_vars

\* C18: on an existing Order the payment_intent.canceled handler leaves the
\* same Order rows as the payment_failed handler, and the same OrderEvents
\* but for the kind of the appended one, payment_canceled.
C18_CanceledAsFailed ==
  \A pi \in 1..Len(intents) :
    (Quiescent /\ OrdersOf(pi) # {})
    => LET o == CHOOSE x \in OrdersOf(pi) : TRUE
           f == FailedRun(Ledger, pi)
           c == CanceledRun(Ledger, pi)
       IN /\ c.orders = f.orders
          /\ c.orderItems = f.orderItems
          /\ c.stock = f.stock
          /\ c.orderEvents = Append(orderEvents, EventRow(o, "payment_canceled"))
          /\ f.orderEvents = Append(orderEvents, EventRow(o, "payment_failed"))

\* C19: the charge.dispute.created handler, for an intent that has an Order,
\* appends exactly one dispute_created OrderEvent for it and changes no
\* Order row and no OrderItem row.
C19_DisputeOnlyAppendsEvent ==
  [][\A r \in Reqs :
       /\ DisputeEvent(r)
          => /\ orderEvents' = Append(orderEvents, EventRow(loc[r].orderId, "dispute_created"))
             /\ loc[r].orderId \in OrdersOf(loc[r].pi)
             /\ UNCHANGED <<orders, orderItems>>
       /\ DisputeFind(r) => UNCHANGED <<orders, orderItems, orderEvents>>]_vars

\* C19 witness: a dispute delivery was handled for an Order that is still
\* CONFIRMED and PAID with its items, and has its dispute_created event.
C19_Witness ==
  /\ last.op = "webhook"
  /\ last.type = "charge.dispute.created"
  /\ \E o \in OrdersOf(last.pi) :
       /\ orders[o].status = "CONFIRMED"
       /\ orders[o].paymentStatus = "PAID"
       /\ \E i \in orderItems : i.orderId = o
       /\ \E k \in 1..Len(orderEvents) : orderEvents[k] = EventRow(o, "dispute_created")

\* C20: handling an emitted event a second time leaves the store as the
\* first handling left it: no further OrderEvent, no Order field changed,
\* no stock released.
C20_RedeliveryIsNoOp ==
  \A e \in emitted :
    Quiescent => HandleEvent(HandleEvent(Ledger, e), e) = HandleEvent(Ledger, e)

\* C24: a cart request (get, add, update, remove, clear) that carries neither
\* a session id nor an authenticated customer is answered 400 at once, and
\* no basket row or basket line is created or changed.
C24_AnonymousCartRejected ==
  [][\A r \in Reqs, p \in Products \cup {Null}, q \in 0..MaxStock :
       (\/ p # Null /\ AddReadProduct(r, Anonymous, p, q)
        \/ \E op \in {"get", "update", "remove", "clear"} :
             CartStart(r, Anonymous, op, p, q))
       => /\ pc'[r] = "idle"
          /\ last'.status = 400
          /\ UNCHANGED <<baskets, basketItems>>]_vars

\* C24 witness: an anonymous clear was answered 400 while a basket holds a
\* line and its subtotal.
C24_Witness ==
  /\ last.op = "clear"
  /\ last.status = 400
  /\ last.error = "Session ID or authentication required"
  /\ \E i \in basketItems : baskets[i.basketId].subtotal = i.quantity * i.price

\* units of product p held in basket lines
Held(lines, p) ==
  LET rows == {i \in lines : i.productId = p}
  IN SumOver(rows, [i \in rows |-> i.quantity])

\* C25: every step that changes the units of a product held in basket lines
\* applies the opposite change to the product's stock, so that stock plus
\* held units stays what it was.
C25_StockPlusHeldIsConstant ==
  [][\A p \in Products :
       stock'[p] + Held(basketItems', p) = stock[p] + Held(basketItems, p)]_vars

\* C27: a basket line keeps the unit price it was created with: no step
\* changes the price stored on a line that exists before and after it.
C27_LinePriceIsAddTimePrice ==
  [][\A i \in basketItems, j \in basketItems' :
       i.id = j.id => j.price = i.price]_vars

\* C28: every basket line has a quantity from 1 to the per-line maximum.
C28_LineQuantityInRange ==
  \A i \in basketItems : i.quantity \in 1..MaxQuantity

\* C26: every Order has the customerId and the basketId of its intent's
\* metadata, whichever authenticated customer called confirm-payment.
C26_OrderFromIntentMetadata ==
  \A o \in 1..Len(orders) :
    LET m == intents[orders[o].paymentIntentId].metadata IN
      /\ orders[o].customerId = m.customerId
      /\ orders[o].basketId = m.basketId

\* the lifecycle machine: CONFIRMED -> PREPARING -> OUT_FOR_DELIVERY ->
\* DELIVERED, and CANCELLED from every state but DELIVERED and CANCELLED
LifecycleEdges ==
  {<<"CONFIRMED", "PREPARING">>, <<"PREPARING", "OUT_FOR_DELIVERY">>,
   <<"OUT_FOR_DELIVERY", "DELIVERED">>}
  \cup {<<s, "CANCELLED">> : s \in {"CONFIRMED", "PREPARING", "OUT_FOR_DELIVERY"}}

\* C21: every step that changes an Order's status takes an edge of the
\* lifecycle machine; in particular none changes the status of an Order that
\* is DELIVERED or CANCELLED.
C21_StatusFollowsLifecycle ==
  [][\A o \in 1..Len(orders) :
       orders'[o].status # orders[o].status
       => <<orders[o].status, orders'[o].status>> \in LifecycleEdges]_vars

\* the closed vocabulary of OrderEvent kinds
EventVocabulary ==
  {"confirmed", "payment_failed", "payment_canceled", "dispute_created"}
  \cup {LowerCased(s) : s \in OrderStatuses}

\* C22: every OrderEvent row has an event kind of the closed vocabulary.
C22_EventKindsInVocabulary ==
  \A k \in 1..Len(orderEvents) : orderEvents[k].event \in EventVocabulary

\* C23: a webhook request whose signature does not verify is answered 400
\* in its first step; no handler step follows and no Order, OrderItem,
\* OrderEvent, basket, basket line or stock changes.
C23_UnverifiedWebhookRejected ==
  [][\A r \in Reqs, type \in ForgedTypes, pi \in 1..Len(intents) :
       WebhookUnverified(r, type, pi)
       => /\ pc'[r] = "idle"
          /\ last'.status = 400
          /\ UNCHANGED <<orders, orderItems, orderEvents, baskets, basketItems, stock>>]_vars

\* C23 witness: an unverified payment_failed request for the intent of a
\* paid Order was answered 400, and the Order is still CONFIRMED and PAID
\* with the `confirmed` event alone.
C23_Witness ==
  /\ last.op = "webhook-signature"
  /\ last.status = 400
  /\ last.type = "payment_intent.payment_failed"
  /\ \E o \in OrdersOf(last.pi) :
       /\ orders[o].status = "CONFIRMED"
       /\ orders[o].paymentStatus = "PAID"
       /\ orderEvents = <<EventRow(o, "confirmed")>>

\* C29: a payment_failed event handled for an intent
\* that has no Order leaves a record in the store, and creates or changes no
\* Order.
C29_OrderlessFailureRecorded ==
  [][\A r \in Reqs :
       (FailedFind(r) /\ pc'[r] = "idle")
       => /\ orders' = orders
          /\ <<orderEvents, orderItems, baskets, basketItems>>'
               # <<orderEvents, orderItems, baskets, basketItems>>]_vars

\* the OrderEvent kinds that account for a status
EventsFor(status) ==
  {LowerCased(status), StatusEventName(status)}
  \cup (IF status = "CANCELLED" THEN {"payment_failed", "payment_canceled"} ELSE {})

\* C30: an Order's status column never shows a status for which no
\* OrderEvent of the Order has been logged.
C30_EventBeforeStatus ==
  \A o \in 1..Len(orders) :
    orders[o].status \in OrderStatuses
    => \E k \in 1..Len(orderEvents) :
         /\ orderEvents[k].orderId = o
         /\ orderEvents[k].event \in EventsFor(orders[o].status)

\* the status an event kind stands for; Null for kinds that bear no status.
\* The names update-status logs are read as the status they were logged for.
ImpliedStatus(event) ==
  CASE event = "confirmed" -> "CONFIRMED"
    [] event \in {"payment_failed", "payment_canceled", "cancelled"} -> "CANCELLED"
    [] \E s \in OrderStatuses : event \in {LowerCased(s), StatusEventName(s)}
         -> CHOOSE s \in OrderStatuses : event \in {LowerCased(s), StatusEventName(s)}
    [] OTHER -> Null

\* the fold of an Order's event log: the status of its latest status-bearing event
FoldedStatus(o) ==
  LET ks == {k \in 1..Len(orderEvents) :
               /\ orderEvents[k].orderId = o
               /\ ImpliedStatus(orderEvents[k].event) # Null}
  IN IF ks = {} THEN Null
     ELSE ImpliedStatus(orderEvents[CHOOSE k \in ks : \A j \in ks : j <= k].event)

\* C31: whenever no handler is in progress, every Order's status column
\* equals the status obtained by folding its OrderEvent log.
C31_StatusIsFoldOfEvents ==
  Quiescent => \A o \in 1..Len(orders) : orders[o].status = FoldedStatus(o)

\* the part of an Order row that no operation rewrites
OrderIdentity(row) ==
  [customerId |-> row.customerId, paymentIntentId |-> row.paymentIntentId]

\* C32: every step keeps every Order (none is deleted, none changes its
\* customer or payment intent) and keeps the OrderEvent log as a prefix of
\* the new log: events are only appended.
C32_LogAppendOnly ==
  [][/\ Len(orders') >= Len(orders)
     /\ \A o \in 1..Len(orders) : OrderIdentity(orders'[o]) = OrderIdentity(orders[o])
     /\ Len(orderEvents') >= Len(orderEvents)
     /\ SubSeq(orderEvents', 1, Len(orderEvents)) = orderEvents]_vars

\* C32 witness: an Order has been through a status update and a customer
\* cancel, and its log holds the three events in the order they were written.
C32_Witness ==
  /\ Quiescent
  /\ Len(orders) = 1
  /\ Len(orderEvents) = 3
  /\ orderEvents[1].event = "confirmed"
  /\ orderEvents[2].event = "preparing"
  /\ orderEvents[3].event = "cancelled"

\* C33: an Order that confirm-payment has created and answered 200 for has
\* at least one OrderItem.
C33_OrderHasItems ==
  (last.op = "confirm-payment" /\ last.status = 200)
  => \E i \in orderItems : i.orderId = last.orderId

\* C34: in every reachable state an Order whose paymentStatus is FAILED has
\* status CANCELLED, and no step turns the paymentStatus of an Order from
\* FAILED to PAID (paymentStatus is written by the webhooks alone, so an Order
\* once FAILED is PAID later only through such a step).
C34_FailedStaysCancelledAndUnpaid ==
  /\ [](\A o \in 1..Len(orders) :
          orders[o].paymentStatus = "FAILED" => orders[o].status = "CANCELLED")
  /\ [][\A o \in 1..Len(orders) :
          orders[o].paymentStatus = "FAILED" => orders'[o].paymentStatus # "PAID"]_vars

\* C35: the status write of a customer cancel never lands on an Order that
\* is DELIVERED or already CANCELLED, and the `cancelled` event of a cancel is
\* never appended to a log that a concurrent cancel has already appended
\* `cancelled` to.
C35_CancelLeavesTerminalOrders ==
  [][\A r \in Reqs :
       /\ CancelUpdate(r)
            => orders[loc[r].orderId].status \notin {"DELIVERED", "CANCELLED"}
       /\ CancelEvent(r)
            => orderEvents[Len(orderEvents)] # EventRow(loc[r].orderId, "cancelled")]_vars

\* the lines of basket bid among the rows `lines`
LinesIn(lines, bid) == {i \in lines : i.basketId = bid}

\* C36: every add that writes its line raises the units of its product in
\* its basket by exactly its own quantity, so that the basket holds the sum
\* of the quantities of the adds that succeeded.
C36_AddsSumUp ==
  [][\A r \in Reqs :
       (AddWriteItem(r) /\ basketItems' # basketItems)
       => Held(LinesIn(basketItems', loc[r].basketId), loc[r].productId)
            = Held(LinesIn(basketItems, loc[r].basketId), loc[r].productId)
              + loc[r].quantity]_vars

\* C37: the basket that getOrCreateBasket hands to a request with session
\* id S and no customer is a basket whose sessionId is S: it is the only
\* basket the request then returns and writes.
C37_GuestGetsOwnBasket ==
  \A r \in Reqs :
    (/\ ~Idle(r)
     /\ "basketId" \in DOMAIN loc[r]
     /\ loc[r].customerId = Null)
    => baskets[loc[r].basketId].sessionId = loc[r].sessionId

\* C38: every step that ends the handling of a signature-valid event, be it
\* that no Order was found, that the handler finished, or that one of its
\* store writes threw, answers 200 {received: true}.
C38_ValidEventAnswered200 ==
  [][\A r \in Reqs :
       (/\ \/ SucceededFind(r) \/ FailedFind(r) \/ DisputeFind(r)
           \/ SucceededEvent(r) \/ FailedEvent(r) \/ DisputeEvent(r)
           \/ WebhookThrows(r)
        /\ pc'[r] = "idle")
       => \E e \in emitted : last' = Received(e.type, e.pi)]_vars

\* C38 witness: a payment_failed delivery was answered 200 although the
\* handler's orderEvent.create threw: the Order is FAILED and no
\* payment_failed event was logged.
C38_Witness ==
  /\ Quiescent
  /\ last = Received("payment_intent.payment_failed", 1)
  /\ Len(orders) = 1
  /\ orders[1].paymentStatus = "FAILED"
  /\ \A k \in 1..Len(orderEvents) : orderEvents[k].event # "payment_failed"

\* C39: for the OTP stored for a phone, verify-otp goes on to issue a token
\* only for the stored code, not after its expiry and with fewer than 3
\* wrong codes answered since it was stored; with 3 wrong codes answered, a
\* verify-otp deletes the unexpired OTP and is rejected whatever its code; and
\* no OTP is verified more than once.
C39_OtpVerification ==
  /\ [][\A r \in Reqs, phone \in Phones, code \in SubmittedCodes :
          VerifyCheck(r, phone, code)
          => /\ pc'[r] = "vo_customer"
                  => /\ otpStore[phone] # NoCode
                     /\ otpStore[phone].code = code
                     /\ now <= otpStore[phone].expiresAt
                     /\ otpLog[phone].wrong < MaxAttempts
                     /\ otpStore'[phone] = NoCode
             /\ (/\ VerifyOtpSchema(code)
                 /\ otpStore[phone] # NoCode
                 /\ now <= otpStore[phone].expiresAt
                 /\ otpLog[phone].wrong >= MaxAttempts)
                  => /\ otpStore'[phone] = NoCode
                     /\ pc'[r] = "idle"
                     /\ last'.status = 400]_vars
  /\ [](\A phone \in Phones : otpLog[phone].verified <= 1)

\* C39 witness: after three wrong codes a further verify-otp, in time, was
\* rejected for too many failed attempts, and the OTP is gone unverified.
C39_Witness ==
  \E phone \in Phones :
    /\ otpLog[phone].wrong = MaxAttempts
    /\ otpLog[phone].verified = 0
    /\ otpStore[phone] = NoCode
    /\ last = AuthResponse("verify-otp", 400, "Too many failed attempts")

====
